---- MODULE Spec2Model ----
(***************************************************************************)
(* Model of src/bot.py (SelectAutoroles): the per-guild configuration      *)
(* store, the admin command handlers, the role-selection menu and the      *)
(* db.json load / save cycle.                                              *)
(*                                                                         *)
(* Python values are modelled as follows.                                  *)
(*   discord.Role          its id, an integer; the rank (position) of a    *)
(*                         role is the order of the ids, the default       *)
(*                         (everyone) role being the lowest.               *)
(*   Optional[X]           a sequence of length 0 (None) or 1 (<<x>>).     *)
(*   emoji of an Autorole  [kind |-> "str", v |-> s] for a standard emoji  *)
(*                         string, [kind |-> "Emoji", id |-> n] for a      *)
(*                         discord.Emoji, [kind |-> "None"] for None.      *)
(*   JSON values           [t |-> "null"], [t |-> "int", v |-> n],         *)
(*                         [t |-> "str", v |-> s].                         *)
(*   str given to a regex  a sequence of one-character strings.            *)
(***************************************************************************)
EXTENDS Integers, Sequences, FiniteSets, TLC

VARIABLES
    configs,      \* Bot.configs: guild id -> ServerConfig (a dict: its domain varies)
    pending,      \* add handlers suspended at `await EmojiConverter().convert`:
                  \* their arguments and, as history, whether the role had no
                  \* entry when the handler made the test of line 293
    reply,        \* the handler step that ran last and what it answered
    steps,        \* number of handler invocations begun so far
    phase,        \* "down" (no process), "started" (before on_ready), "ready"
    db,           \* db.json: <<>> when the file does not exist, else <<object>>
    saved,        \* Bot.configs as it was when save() last wrote db.json
    botGuilds,    \* bot.guilds: the guilds the bot is a member of
    liveRoles,    \* guild id -> ids guild.get_role resolves
    liveEmojis,   \* guild id -> ids found in guild.emojis
    userRoles,    \* member.roles of the member using the menu (ids)
    menu          \* the RoleSelect sent to that member: <<>> or <<view>>

vars == <<configs, pending, reply, steps, phase, db, saved, botGuilds,
          liveRoles, liveEmojis, userRoles, menu>>

-----------------------------------------------------------------------------
(* Bounds of the model *)

MaxSteps == 3        \* handler invocations per run
MaxPending == 2      \* add handlers suspended at the same time

-----------------------------------------------------------------------------
(* The guilds, roles and emoji of the modelled world *)

Guilds == {1, 2}

DefaultRole == 0     \* guild.default_role (everyone), the lowest role
BotTopRole == 200    \* guild.me.top_role

\* roles with Role.managed set (owned by an integration)
ManagedRoles == {3}

\* roles already registered in a guild that starts non-empty
FillerRoles == 101..125

\* roles an admin names in a command
CommandRoles == {0, 1, 2, 3, 200}

GuildRoles == CommandRoles \cup FillerRoles

\* custom emoji ids: emoji 11 was created in guild 1, emoji 12 in guild 2
EmojisOf == [g \in Guilds |-> IF g = 1 THEN {11} ELSE {12}]

\* the values of emoji_map.json
DEFAULT_EMOJI == {"game", "star"}

MaxAutoroles == 25

None == <<>>
Some(x) == <<x>>

StrEmoji(s) == [kind |-> "str", v |-> s]
EmojiObj(n) == [kind |-> "Emoji", id |-> n]
NoneEmoji == [kind |-> "None"]

-----------------------------------------------------------------------------
(* Autorole and ServerConfig *)

Autorole(role, emoji, description, private) ==
    [role |-> role, emoji |-> emoji, description |-> description, private |-> private]

ServerConfig(member_role, color, autoroles) ==
    [member_role |-> member_role, color |-> color, autoroles |-> autoroles]

\* ServerConfig.from_guild
from_guild == ServerConfig(DefaultRole, None, <<>>)

\* Role.is_default(): the role whose id is the guild's id, the everyone role
is_default(role) == role = DefaultRole

\* Role.__lt__ / Role.__ge__: by position, the default role below every other
RoleLt(a, b) == a < b
RoleGe(a, b) == ~RoleLt(a, b)

\* Role.is_assignable(): not default, not managed, below the bot's top role
\* (the bot is not the owner of the guild)
is_assignable(role) ==
    /\ ~is_default(role)
    /\ role \notin ManagedRoles
    /\ RoleLt(role, BotTopRole)

\* attrs-generated Autorole.__eq__(self, other): NotImplemented unless other is an
\* Autorole, else field-wise equality. The reflected Role.__eq__ is an isinstance
\* test against Role, so an Autorole and a Role never compare equal.
AutoroleEq(ar, other, otherClass) ==
    /\ otherClass = "Autorole"
    /\ ar = other

\* `x in autoroles` for a list of Autorole: some element e with e == x
InList(x, xClass, autoroles) ==
    \E i \in DOMAIN autoroles : AutoroleEq(autoroles[i], x, xClass)

\* the test of line 293: `role not in bot.configs[guild.id].autoroles`
RoleNotInAutoroles(role, autoroles) == ~InList(role, "Role", autoroles)

\* the space test never finding the list full
NoSpaceNeverMut(autoroles) == FALSE

\* the test of line 304: `len(bot.configs[guild.id].autoroles) == 25`
NoSpaceMut(autoroles) == Len(autoroles) = MaxAutoroles + 1
NoSpace(autoroles) == Len(autoroles) = MaxAutoroles

\* the test of line 303: `role < guild.me.top_role`
BelowBot(role) == RoleLt(role, BotTopRole)

\* str.strip() on the emoji strings an admin types
Strip(s) == IF s = " game " THEN "game" ELSE s

is_defualt_emoji(string) == string \in DEFAULT_EMOJI

\* the emoji in the bot's cache: those of every guild the bot is in
BotEmojis == UNION {liveEmojis[g] : g \in botGuilds}

\* commands.EmojiConverter().convert on a mention: bot.get_emoji(id), looked up
\* in the bot's cache; EmojiNotFound (None here) when the lookup fails
EmojiConvert(s) ==
    CASE s = "<:e:11>" /\ 11 \in BotEmojis -> Some(EmojiObj(11))
      [] s = "<:e:12>" /\ 12 \in BotEmojis -> Some(EmojiObj(12))
      [] OTHER -> None

\* the answer of a handler step: the command, the guild and the role it was
\* given, its outcome and, for admin set, the outcome of each option and the
\* color option as it was typed
Reply(op, g, role, out) ==
    [op |-> op, guild |-> g, role |-> role, out |-> out, mr |-> "-", col |-> "-",
     color |-> <<>>]

-----------------------------------------------------------------------------
(* admin add *)

\* AddChecks with the assignable test made before the space test
AddChecksOrderMut(cfg, g, role, concrete_emoji, description, private) ==
    IF BelowBot(role)
    THEN IF ~is_assignable(role)
         THEN [autoroles |-> cfg.autoroles, out |-> "NotAssignable"]
         ELSE IF NoSpace(cfg.autoroles)
         THEN [autoroles |-> cfg.autoroles, out |-> "TooManyEntries"]
         ELSE [autoroles |->
                  Append(cfg.autoroles,
                         Autorole(role, concrete_emoji, description, private)),
               out |-> "Added"]
    ELSE [autoroles |-> cfg.autoroles, out |-> "RoleTooHigh"]

\* lines 303-336 of add, after the emoji is known: the new autoroles list and
\* the answer
AddChecks(cfg, g, role, concrete_emoji, description, private) ==
    IF BelowBot(role)
    THEN IF NoSpace(cfg.autoroles)
         THEN [autoroles |-> cfg.autoroles, out |-> "TooManyEntries"]
         ELSE IF ~is_assignable(role)
         THEN [autoroles |-> cfg.autoroles, out |-> "NotAssignable"]
         ELSE [autoroles |->
                  Append(cfg.autoroles,
                         Autorole(role, concrete_emoji, description, private)),
               out |-> IF cfg.member_role = DefaultRole /\ private
                       THEN "AddedPrivateNoMemberRole"
                       ELSE "Added"]
    ELSE [autoroles |-> cfg.autoroles, out |-> "RoleTooHigh"]

AddFinish(g, role, concrete_emoji, description, private) ==
    LET r == AddChecks(configs[g], g, role, concrete_emoji, description, private) IN
    /\ configs' = [configs EXCEPT ![g].autoroles = r.autoroles]
    /\ reply' = Reply("add", g, role, r.out)

\* add, from its first line to its first suspension or to its end
AddBegin(g, emoji, role, description, private) ==
    LET e == Strip(emoji) IN
    /\ phase = "ready"
    /\ steps < MaxSteps
    /\ g \in botGuilds
    /\ steps' = steps + 1
    /\ UNCHANGED <<phase, db, saved, botGuilds, liveRoles, liveEmojis, userRoles, menu>>
    /\ IF g \notin DOMAIN configs
       THEN /\ reply' = Reply("add", g, role, "KeyError")
            /\ UNCHANGED <<configs, pending>>
       ELSE IF ~RoleNotInAutoroles(role, configs[g].autoroles)
       THEN /\ reply' = Reply("add", g, role, "AlreadyPresent")
            /\ UNCHANGED <<configs, pending>>
       ELSE IF ~is_defualt_emoji(e)
       THEN /\ Cardinality(pending) < MaxPending
            /\ pending' = pending \cup
                   {[guild |-> g, emoji |-> e, role |-> role,
                     description |-> description, private |-> private,
                     fresh |-> \A i \in DOMAIN configs[g].autoroles :
                                  configs[g].autoroles[i].role # role]}
            /\ reply' = Reply("add", g, role, "awaiting")
            /\ UNCHANGED configs
       ELSE /\ AddFinish(g, role, StrEmoji(e), description, private)
            /\ UNCHANGED pending

\* add, resumed after `await commands.EmojiConverter().convert(ctx, emoji)`
AddResume(h) ==
    /\ phase = "ready"
    /\ h \in pending
    /\ pending' = pending \ {h}
    /\ UNCHANGED <<steps, phase, db, saved, botGuilds, liveRoles, liveEmojis,
                   userRoles, menu>>
    /\ IF EmojiConvert(h.emoji) = None
       THEN /\ reply' = Reply("add", h.guild, h.role, "InvalidEmoji")
            /\ UNCHANGED configs
       ELSE IF h.guild \notin DOMAIN configs
       THEN /\ reply' = Reply("add", h.guild, h.role, "KeyError")
            /\ UNCHANGED configs
       ELSE AddFinish(h.guild, h.role, EmojiConvert(h.emoji)[1],
                      h.description, h.private)

\* add run from its first line to its last with no other handler in between:
\* the configuration it leaves
AddWhole(cfg, g, emoji, role, description, private) ==
    LET e == Strip(emoji)
        concrete_emoji == IF is_defualt_emoji(e) THEN Some(StrEmoji(e))
                          ELSE EmojiConvert(e)
    IN  IF ~RoleNotInAutoroles(role, cfg.autoroles) THEN cfg
        ELSE IF concrete_emoji = None THEN cfg
        ELSE [cfg EXCEPT !.autoroles =
                 AddChecks(cfg, g, role, concrete_emoji[1],
                           description, private).autoroles]

-----------------------------------------------------------------------------
(* admin remove *)

\* next(filter(lambda r: r.role == role, autoroles)): index of the first entry
\* of the role, 0 for StopIteration
FirstOfRole(role, autoroles) ==
    IF \E i \in DOMAIN autoroles : autoroles[i].role = role
    THEN CHOOSE i \in DOMAIN autoroles :
            /\ autoroles[i].role = role
            /\ \A j \in 1..(i - 1) : autoroles[j].role # role
    ELSE 0

\* list.remove dropping the head of the list whatever x is
ListRemoveMut(autoroles, x) == Tail(autoroles)

\* list.remove(x): drops the first element equal to x
ListRemove(autoroles, x) ==
    LET i == CHOOSE k \in DOMAIN autoroles :
                /\ AutoroleEq(autoroles[k], x, "Autorole")
                /\ \A j \in 1..(k - 1) : ~AutoroleEq(autoroles[j], x, "Autorole")
    IN  SubSeq(autoroles, 1, i - 1) \o SubSeq(autoroles, i + 1, Len(autoroles))

Remove(g, role) ==
    /\ phase = "ready"
    /\ steps < MaxSteps
    /\ g \in botGuilds
    /\ steps' = steps + 1
    /\ UNCHANGED <<pending, phase, db, saved, botGuilds, liveRoles, liveEmojis,
                   userRoles, menu>>
    /\ IF g \notin DOMAIN configs
       THEN /\ reply' = Reply("remove", g, role, "KeyError")
            /\ UNCHANGED configs
       ELSE LET autoroles == configs[g].autoroles
                i == FirstOfRole(role, autoroles)
            IN  IF i = 0
                THEN /\ reply' = Reply("remove", g, role, "NotInAutoroles")
                     /\ UNCHANGED configs
                ELSE /\ configs' = [configs EXCEPT
                            ![g].autoroles = ListRemove(autoroles, autoroles[i])]
                     /\ reply' = Reply("remove", g, role, "Removed")

-----------------------------------------------------------------------------
(* admin set *)

UpperHex == <<"0", "1", "2", "3", "4", "5", "6", "7", "8", "9",
              "A", "B", "C", "D", "E", "F">>
LowerHex == <<"0", "1", "2", "3", "4", "5", "6", "7", "8", "9",
              "a", "b", "c", "d", "e", "f">>

Range(f) == {f[i] : i \in DOMAIN f}

\* re.compile("[0-9A-F]{6}").match(color): the pattern is matched at the start
\* of the string and is not anchored at its end
PatternMatch(color) ==
    /\ Len(color) >= 6
    /\ \A i \in 1..6 : color[i] \in Range(UpperHex)

IsHexChar(c) == c \in Range(UpperHex) \cup Range(LowerHex)

HexVal(c) ==
    IF c \in Range(UpperHex)
    THEN (CHOOSE i \in DOMAIN UpperHex : UpperHex[i] = c) - 1
    ELSE (CHOOSE i \in DOMAIN LowerHex : LowerHex[i] = c) - 1

RECURSIVE HexNumber(_)
HexNumber(s) ==
    IF s = <<>> THEN 0
    ELSE 16 * HexNumber(SubSeq(s, 1, Len(s) - 1)) + HexVal(s[Len(s)])

\* int(color, 16): None stands for ValueError
IntBase16(s) ==
    IF s # <<>> /\ \A i \in DOMAIN s : IsHexChar(s[i])
    THEN Some(HexNumber(s))
    ELSE None

\* SetMemberRole storing the role before it is validated
SetMemberRoleMut(cfg, member_role) ==
    IF member_role = None
    THEN [cfg |-> cfg, out |-> "-"]
    ELSE [cfg |-> [cfg EXCEPT !.member_role = member_role[1]],
          out |-> IF is_default(member_role[1]) THEN "InvalidGate"
                  ELSE IF member_role[1] = cfg.member_role THEN "Unchanged"
                  ELSE "Updated"]

\* lines 389-396: the member_role option
SetMemberRole(cfg, member_role) ==
    IF member_role = None
    THEN [cfg |-> cfg, out |-> "-"]
    ELSE IF is_default(member_role[1])
    THEN [cfg |-> cfg, out |-> "InvalidGate"]
    ELSE IF member_role[1] = cfg.member_role
    THEN [cfg |-> cfg, out |-> "Unchanged"]
    ELSE [cfg |-> [cfg EXCEPT !.member_role = member_role[1]], out |-> "Updated"]

\* lines 398-407: the color option
SetColor(cfg, color) ==
    IF color = None
    THEN [cfg |-> cfg, out |-> "-"]
    ELSE IF ~PatternMatch(color[1])
    THEN [cfg |-> cfg, out |-> "InvalidFormat"]
    ELSE IF IntBase16(color[1]) = None
    THEN [cfg |-> cfg, out |-> "ValueError"]
    ELSE IF Some(IntBase16(color[1])[1]) = cfg.color
    THEN [cfg |-> cfg, out |-> "Unchanged"]
    ELSE [cfg |-> [cfg EXCEPT !.color = Some(IntBase16(color[1])[1])],
          out |-> "Updated"]

set_config(g, member_role, color) ==
    /\ phase = "ready"
    /\ steps < MaxSteps
    /\ g \in botGuilds
    /\ steps' = steps + 1
    /\ UNCHANGED <<pending, phase, db, saved, botGuilds, liveRoles, liveEmojis,
                   userRoles, menu>>
    /\ IF g \notin DOMAIN configs
       THEN /\ reply' = [Reply("set", g, DefaultRole, "KeyError") EXCEPT
                            !.color = color]
            /\ UNCHANGED configs
       ELSE LET a == SetMemberRole(configs[g], member_role)
                b == SetColor(a.cfg, color)
            IN  /\ configs' = [configs EXCEPT ![g] = b.cfg]
                /\ reply' = [op |-> "set", guild |-> g, role |-> DefaultRole,
                             out |-> IF b.out = "ValueError" THEN "ValueError"
                                     ELSE IF a.out = "-" /\ b.out = "-"
                                     THEN "NothingSet" ELSE "answered",
                             mr |-> a.out, col |-> b.out, color |-> color]

-----------------------------------------------------------------------------
(* The admin commands on their own *)

Filler(n) ==
    [i \in 1..n |-> Autorole(100 + i, StrEmoji("game"), "", FALSE)]

\* a guild starts empty or one entry short of the limit
StartFills == {0, MaxAutoroles - 1}

\* the add commands the admins issue: in guild 1 a standard emoji typed with
\* spaces around it for every kind of role (role 2 as private), a custom emoji for a role below and
\* for one above the bot's, and an unknown emoji; in guild 2 one role
AdminAdds ==
    {[guild |-> 1, emoji |-> " game ", role |-> r, description |-> "fun",
      private |-> (r = 2)] : r \in {1, 2, 3, 200}}
    \cup {[guild |-> 1, emoji |-> "<:e:11>", role |-> r, description |-> "fun",
           private |-> FALSE] : r \in {1, 200}}
    \cup {[guild |-> 1, emoji |-> "junk", role |-> 1, description |-> "fun",
           private |-> FALSE],
          [guild |-> 1, emoji |-> "<:e:12>", role |-> 2, description |-> "fun",
           private |-> FALSE],
          [guild |-> 2, emoji |-> " game ", role |-> 1, description |-> "fun",
           private |-> FALSE]}

AdminRemoves == {<<1, 1>>, <<1, 2>>, <<2, 1>>}

ColorInputs ==
    { <<"F", "F", "0", "0", "0", "0">>,
      <<"1", "2", "3", "4", "5">>,
      <<"F", "F", "0", "0", "0", "0", "Z", "Z">>,
      <<"F", "F", "0", "0", "0", "0", "1">>,
      <<"f", "f", "0", "0", "0", "0">>,
      <<"0", "0", "G", "0", "0", "0">> }

Optional(S) == {None} \cup {Some(x) : x \in S}

NoReply == Reply("none", 1, DefaultRole, "-")

InitAdmin ==
    /\ \E f \in StartFills :
          configs = [g \in Guilds |->
                       ServerConfig(DefaultRole, None, IF g = 1 THEN Filler(f) ELSE <<>>)]
    /\ pending = {}
    /\ reply = NoReply
    /\ steps = 0
    /\ phase = "ready"
    /\ db = None
    /\ saved = None
    /\ botGuilds = Guilds
    /\ liveRoles = [g \in Guilds |-> GuildRoles]
    /\ liveEmojis = EmojisOf
    /\ userRoles = {DefaultRole}
    /\ menu = None

NextAdmin ==
    \/ \E c \in AdminAdds :
          AddBegin(c.guild, c.emoji, c.role, c.description, c.private)
    \/ \E h \in pending : AddResume(h)
    \/ \E c \in AdminRemoves : Remove(c[1], c[2])
    \/ \E member_role \in Optional({0, 1}), color \in Optional(ColorInputs) :
          set_config(1, member_role, color)
    \/ set_config(2, Some(2), None)

SpecAdmin == InitAdmin /\ [][NextAdmin]_vars

-----------------------------------------------------------------------------
(* The selection menu: /roles, the panel's button, RoleSelect *)

\* member.top_role: the highest of the member's roles
TopRole(roles) == CHOOSE r \in roles : \A q \in roles : RoleGe(r, q)

\* ServerConfig.available_autoroles without the is_default test
available_autoroles_mut(cfg, top_role) ==
    IF RoleGe(top_role, cfg.member_role)
    THEN cfg.autoroles
    ELSE SelectSeq(cfg.autoroles, LAMBDA x : ~x.private)

\* ServerConfig.available_autoroles(user), user given by its top role
available_autoroles(cfg, top_role) ==
    IF RoleGe(top_role, cfg.member_role) /\ ~is_default(cfg.member_role)
    THEN cfg.autoroles
    ELSE SelectSeq(cfg.autoroles, LAMBDA x : ~x.private)

\* sorted(options, key=label): a stable insertion sort; the label of a role is
\* its name, ordered here as the ids are
RECURSIVE SortByLabel(_)
SortByLabel(opts) ==
    IF opts = <<>> THEN <<>>
    ELSE LET rest == SortByLabel(SubSeq(opts, 1, Len(opts) - 1))
             x == opts[Len(opts)]
             k == Cardinality({i \in DOMAIN rest : rest[i] <= x})
         IN  SubSeq(rest, 1, k) \o <<x>> \o SubSeq(rest, k + 1, Len(rest))

\* RoleSelect.__init__: one option per available autorole, its value the role id;
\* disturbed records, as history, that the member's roles were changed from
\* outside while the calls of a submission were under way
RoleSelect(g, roles) ==
    LET avail == available_autoroles(configs[g], TopRole(roles)) IN
    [guild |-> g,
     options |-> SortByLabel([i \in DOMAIN avail |-> avail[i].role]),
     stage |-> "open",
     user_roles |-> {}, available_roles |-> {}, selected_roles |-> {},
     to_add |-> {}, to_remove |-> {},
     disturbed |-> FALSE]

\* the values of a submitted menu arrive as strings; int(v) reads them back
StrOf(n) == [str |-> n]
IntOf(v) == v.str

\* line 146 with the roles the member holds outside the menu left out of account
to_remove_ids_mut(user_roles, available_roles, selected_roles) ==
    user_roles \ selected_roles

\* line 146: `user_roles & available_roles - selected_roles`; in Python the
\* difference binds tighter than the intersection
to_remove_ids(user_roles, available_roles, selected_roles) ==
    user_roles \cap (available_roles \ selected_roles)

\* line 147 asking for no role at all
to_add_ids_none_mut(user_roles, selected_roles) == {}

\* line 147 without the difference
to_add_ids_mut(user_roles, selected_roles) == selected_roles

\* line 147: `selected_roles - user_roles`
to_add_ids(user_roles, selected_roles) == selected_roles \ user_roles

\* the /roles command
roles(g) ==
    /\ phase = "ready"
    /\ g \in botGuilds
    /\ UNCHANGED <<configs, pending, steps, phase, db, saved, botGuilds, liveRoles,
                   liveEmojis, userRoles>>
    /\ IF g \notin DOMAIN configs
       THEN /\ reply' = Reply("roles", g, DefaultRole, "KeyError")
            /\ UNCHANGED menu
       ELSE IF configs[g].autoroles # <<>>
       THEN IF available_autoroles(configs[g], TopRole(userRoles)) # <<>>
            THEN /\ menu' = Some(RoleSelect(g, userRoles))
                 /\ reply' = Reply("roles", g, DefaultRole, "menu")
            ELSE \* line 163 passes `view`, a local that was never assigned
                 /\ reply' = Reply("roles", g, DefaultRole, "UnboundLocalError")
                 /\ UNCHANGED menu
       ELSE /\ reply' = Reply("roles", g, DefaultRole, "NoneConfigured")
            /\ UNCHANGED menu

\* SelectRoleButtonView.callback, the "Select Role(s)" button
ButtonCallback(g) ==
    /\ phase = "ready"
    /\ g \in botGuilds
    /\ UNCHANGED <<configs, pending, steps, phase, db, saved, botGuilds, liveRoles,
                   liveEmojis, userRoles>>
    /\ IF g \notin DOMAIN configs
       THEN /\ reply' = Reply("button", g, DefaultRole, "KeyError")
            /\ UNCHANGED menu
       ELSE IF configs[g].autoroles # <<>>
       THEN IF available_autoroles(configs[g], TopRole(userRoles)) # <<>>
            THEN /\ menu' = Some(RoleSelect(g, userRoles))
                 /\ reply' = Reply("button", g, DefaultRole, "menu")
            ELSE /\ reply' = Reply("button", g, DefaultRole, "NoPublic")
                 /\ UNCHANGED menu
       ELSE /\ reply' = Reply("button", g, DefaultRole, "NoneConfigured")
            /\ UNCHANGED menu

\* RoleSelect.callback up to `await user.add_roles`: values are the option
\* values the member left selected
Callback(values) ==
    /\ phase = "ready"
    /\ menu # None
    /\ menu[1].stage \in {"open", "done"}
    /\ LET user_roles == userRoles
           available_roles == Range(menu[1].options)
           selected_roles == {IntOf(v) : v \in values}
       IN  menu' = Some([menu[1] EXCEPT
                      !.stage = "adding",
                      !.disturbed = FALSE,
                      !.user_roles = user_roles,
                      !.available_roles = available_roles,
                      !.selected_roles = selected_roles,
                      !.to_add = to_add_ids(user_roles, selected_roles),
                      !.to_remove =
                          to_remove_ids(user_roles, available_roles, selected_roles)])
    /\ reply' = Reply("select", menu[1].guild, DefaultRole, "submitted")
    /\ UNCHANGED <<configs, pending, steps, phase, db, saved, botGuilds, liveRoles,
                   liveEmojis, userRoles>>

\* the member submits the open menu with any of its options selected
Submit ==
    /\ menu # None
    /\ \E values \in SUBSET {StrOf(n) : n \in Range(menu[1].options)} :
          Callback(values)

\* `await user.add_roles(*to_add)` completes
AddRolesDone ==
    /\ phase = "ready"
    /\ menu # None
    /\ menu[1].stage = "adding"
    /\ userRoles' = userRoles \cup menu[1].to_add
    /\ menu' = Some([menu[1] EXCEPT !.stage = "removing"])
    /\ reply' = Reply("select", menu[1].guild, DefaultRole, "added")
    /\ UNCHANGED <<configs, pending, steps, phase, db, saved, botGuilds, liveRoles,
                   liveEmojis>>

\* `await user.remove_roles(*to_remove)` completes
RemoveRolesDone ==
    /\ phase = "ready"
    /\ menu # None
    /\ menu[1].stage = "removing"
    /\ userRoles' = userRoles \ menu[1].to_remove
    /\ menu' = Some([menu[1] EXCEPT !.stage = "done"])
    /\ reply' = Reply("select", menu[1].guild, DefaultRole, "removed")
    /\ UNCHANGED <<configs, pending, steps, phase, db, saved, botGuilds, liveRoles,
                   liveEmojis>>

\* somebody takes a role from the member (member.roles, read at lines 74, 128
\* and 142, is the platform's state)
RoleRevoked(role) ==
    /\ phase = "ready"
    /\ role \in userRoles \ {DefaultRole}
    /\ userRoles' = userRoles \ {role}
    /\ menu' = IF menu # None /\ menu[1].stage \in {"adding", "removing"}
               THEN Some([menu[1] EXCEPT !.disturbed = TRUE])
               ELSE menu
    /\ reply' = Reply("role_revoked", 1, role, "-")
    /\ UNCHANGED <<configs, pending, steps, phase, db, saved, botGuilds, liveRoles,
                   liveEmojis>>

(* The menu used by one member while the admins change guild 1 *)

PublicEntry(r) == Autorole(r, StrEmoji("game"), "fun", FALSE)
PrivateEntry(r) == Autorole(r, StrEmoji("star"), "", TRUE)

\* autoroles lists that add commands produce
MenuLists ==
    { <<>>,
      <<PublicEntry(1)>>,
      <<PrivateEntry(2)>>,
      <<PublicEntry(2), PrivateEntry(1)>>,
      <<PublicEntry(101), PublicEntry(1), PrivateEntry(2)>> }

\* the roles the member holds, the default role always among them
MemberRoleSets == {{DefaultRole} \cup s : s \in SUBSET {1, 2, 102}}

InitMenu ==
    /\ \E l \in MenuLists, m \in {0, 1, 2} :
          configs = [g \in Guilds |->
                       IF g = 1 THEN ServerConfig(m, None, l) ELSE from_guild]
    /\ userRoles \in MemberRoleSets
    /\ pending = {}
    /\ reply = NoReply
    /\ steps = 0
    /\ phase = "ready"
    /\ db = None
    /\ saved = None
    /\ botGuilds = Guilds
    /\ liveRoles = [g \in Guilds |-> GuildRoles]
    /\ liveEmojis = EmojisOf
    /\ menu = None

NextMenu ==
    \/ \E g \in Guilds : roles(g)
    \/ \E g \in Guilds : ButtonCallback(g)
    \/ Submit
    \/ AddRolesDone
    \/ RemoveRolesDone
    \/ \E role \in {1, 2} : Remove(1, role)
    \/ \E role \in {1, 2} : set_config(1, Some(role), None)
    \/ \E role \in {1, 2} : RoleRevoked(role)

SpecMenu == InitMenu /\ [][NextMenu]_vars

-----------------------------------------------------------------------------
(* db.json: save() at exit, the load of on_ready *)

JNull == [t |-> "null"]
JInt(n) == [t |-> "int", v |-> n]
JStr(x) == [t |-> "str", v |-> x]

\* save.serialize on the emoji of an Autorole: the id of a discord.Emoji, any
\* other value as it is
SerializeEmoji(emoji) ==
    CASE emoji.kind = "Emoji" -> JInt(emoji.id)
      [] emoji.kind = "str" -> JStr(emoji.v)
      [] OTHER -> JNull

\* attrs.asdict(server_config, value_serializer=serialize): roles as their id,
\* a Color as its value, None as null
Serialize(cfg) ==
    [member_role |-> cfg.member_role,
     color |-> IF cfg.color = None THEN JNull ELSE JInt(cfg.color[1]),
     autoroles |->
        [i \in DOMAIN cfg.autoroles |->
            [role |-> cfg.autoroles[i].role,
             emoji |-> SerializeEmoji(cfg.autoroles[i].emoji),
             description |-> cfg.autoroles[i].description,
             private |-> cfg.autoroles[i].private]]]

\* json.dump of the dict: the int keys become strings
DumpAll(store) ==
    [k \in {StrOf(g) : g \in DOMAIN store} |-> Serialize(store[IntOf(k)])]

\* guild.get_role(id): None when the guild has no such role
get_role(g, id) == IF id \in liveRoles[g] THEN Some(id) ELSE None

\* lines 54-57: an int is looked up in guild.emojis, anything else is kept
LoadEmoji(g, e) ==
    CASE e.t = "int" -> IF e.v \in liveEmojis[g] THEN EmojiObj(e.v) ELSE NoneEmoji
      [] e.t = "str" -> StrEmoji(e.v)
      [] OTHER -> NoneEmoji

\* Autorole.from_dict: None when the role does not resolve
Autorole_from_dict(g, ar) ==
    IF get_role(g, ar.role) # None
    THEN Some(Autorole(get_role(g, ar.role)[1], LoadEmoji(g, ar.emoji),
                       ar.description, ar.private))
    ELSE None

RECURSIVE LoadAutoroles(_, _)
LoadAutoroles(g, ars) ==
    IF ars = <<>> THEN <<>>
    ELSE Autorole_from_dict(g, Head(ars)) \o LoadAutoroles(g, Tail(ars))

\* ServerConfig.from_dict
ServerConfig_from_dict(g, d) ==
    ServerConfig(
        IF get_role(g, d.member_role) # None THEN d.member_role ELSE DefaultRole,
        IF d.color # JNull THEN Some(d.color.v) ELSE None,
        LoadAutoroles(g, d.autoroles))

\* lines 437-438: a default configuration for every guild of the bot
WithDefaults(store) ==
    [g \in DOMAIN store \cup botGuilds |->
        IF g \in botGuilds THEN from_guild ELSE store[g]]

\* the process starts: Bot.configs is the empty dict of the class body
Start ==
    /\ phase = "down"
    /\ phase' = "started"
    /\ configs' = <<>>
    /\ pending' = {}
    /\ menu' = None
    /\ reply' = Reply("start", 1, DefaultRole, "-")
    /\ UNCHANGED <<steps, db, saved, botGuilds, liveRoles, liveEmojis, userRoles>>

\* on_ready: at startup, and again whenever the gateway session is re-established
on_ready ==
    /\ phase \in {"started", "ready"}
    /\ phase' = "ready"
    /\ UNCHANGED <<pending, steps, db, saved, botGuilds, liveRoles, liveEmojis,
                   userRoles, menu>>
    /\ IF db = None
       THEN \* FileNotFoundError
            /\ configs' = WithDefaults(configs)
            /\ reply' = Reply("on_ready", 1, DefaultRole, "NoDatabase")
       ELSE IF \E k \in DOMAIN db[1] : IntOf(k) \notin botGuilds
       THEN \* bot.get_guild gives None and from_dict calls None.get_role
            /\ configs' = WithDefaults(configs)
            /\ reply' = Reply("on_ready", 1, DefaultRole, "AttributeError")
       ELSE /\ configs' = [g \in {IntOf(k) : k \in DOMAIN db[1]} |->
                              ServerConfig_from_dict(g, db[1][StrOf(g)])]
            /\ reply' = Reply("on_ready", 1, DefaultRole, "Loaded")

\* the process exits and atexit runs save()
Exit ==
    /\ phase \in {"started", "ready"}
    /\ phase' = "down"
    /\ db' = Some(DumpAll(configs))
    /\ saved' = Some(configs)
    /\ reply' = Reply("exit", 1, DefaultRole, "Saved")
    /\ UNCHANGED <<configs, pending, steps, botGuilds, liveRoles, liveEmojis,
                   userRoles, menu>>

\* the bot is added to a guild; on_guild_join runs when the process is ready
GuildJoin(g) ==
    /\ g \notin botGuilds
    /\ botGuilds' = botGuilds \cup {g}
    /\ configs' = IF phase = "ready"
                  THEN [o \in DOMAIN configs \cup {g} |->
                          IF o = g THEN from_guild ELSE configs[o]]
                  ELSE configs
    /\ reply' = Reply("guild_join", g, DefaultRole, "-")
    /\ UNCHANGED <<pending, steps, phase, db, saved, liveRoles, liveEmojis,
                   userRoles, menu>>

\* the bot is removed from a guild: no handler runs
GuildLeave(g) ==
    /\ g \in botGuilds
    /\ botGuilds' = botGuilds \ {g}
    /\ reply' = Reply("guild_remove", g, DefaultRole, "-")
    /\ UNCHANGED <<configs, pending, steps, phase, db, saved, liveRoles, liveEmojis,
                   userRoles, menu>>

\* a role of a guild is deleted while the process is down
DeleteRole(g, role) ==
    /\ phase = "down"
    /\ role \in liveRoles[g]
    /\ liveRoles' = [liveRoles EXCEPT ![g] = @ \ {role}]
    /\ reply' = Reply("role_delete", g, role, "-")
    /\ UNCHANGED <<configs, pending, steps, phase, db, saved, botGuilds, liveEmojis,
                   userRoles, menu>>

\* a custom emoji of a guild is deleted while the process is down
DeleteEmoji(g, e) ==
    /\ phase = "down"
    /\ e \in liveEmojis[g]
    /\ liveEmojis' = [liveEmojis EXCEPT ![g] = @ \ {e}]
    /\ reply' = Reply("emoji_delete", g, DefaultRole, "-")
    /\ UNCHANGED <<configs, pending, steps, phase, db, saved, botGuilds, liveRoles,
                   userRoles, menu>>

(* The life of the process: start, on_ready, admin commands, exit, restart *)

LifeAdds ==
    {[guild |-> 1, emoji |-> " game ", role |-> 1, description |-> "fun",
      private |-> TRUE],
     [guild |-> 1, emoji |-> "<:e:11>", role |-> 2, description |-> "",
      private |-> FALSE],
     [guild |-> 2, emoji |-> " game ", role |-> 1, description |-> "",
      private |-> FALSE]}

Black == <<"0", "0", "0", "0", "0", "0">>

InitLife ==
    /\ configs = <<>>
    /\ pending = {}
    /\ reply = NoReply
    /\ steps = 0
    /\ phase = "down"
    /\ db = None
    /\ saved = None
    /\ botGuilds = Guilds
    /\ liveRoles = [g \in Guilds |-> GuildRoles]
    /\ liveEmojis = EmojisOf
    /\ userRoles = {DefaultRole}
    /\ menu = None

NextLife ==
    \/ Start
    \/ on_ready
    \/ Exit
    \/ \E g \in Guilds : GuildJoin(g)
    \/ \E g \in Guilds : GuildLeave(g)
    \/ DeleteRole(1, 1)
    \/ DeleteEmoji(1, 11)
    \/ \E c \in LifeAdds :
          AddBegin(c.guild, c.emoji, c.role, c.description, c.private)
    \/ \E h \in pending : AddResume(h)
    \/ Remove(1, 1)
    \/ set_config(1, Some(2), Some(Black))

SpecLife == InitLife /\ [][NextLife]_vars

-----------------------------------------------------------------------------
(* Properties of the admin commands *)

Entries(g) == configs[g].autoroles

HasEntry(g, role) == \E i \in DOMAIN Entries(g) : Entries(g)[i].role = role

\* the command of a suspended add handler
Command(h) ==
    [guild |-> h.guild, emoji |-> h.emoji, role |-> h.role,
     description |-> h.description, private |-> h.private]

\* this step is an add handler of command c giving its answer: the whole handler
\* when the emoji is a standard one, else its part after the await
AddAnswers(c) ==
    /\ reply'.op = "add"
    /\ reply'.guild = c.guild
    /\ reply'.role = c.role
    /\ reply'.out # "awaiting"
    /\ \/ AddBegin(c.guild, c.emoji, c.role, c.description, c.private)
       \/ \E h \in pending :
             /\ Command(h) = [c EXCEPT !.emoji = Strip(c.emoji)]
             /\ AddResume(h)

\* the emoji of command c passes the emoji validation of add
EmojiValid(c) ==
    is_defualt_emoji(Strip(c.emoji)) \/ EmojiConvert(Strip(c.emoji)) # None

AddRejections ==
    {"AlreadyPresent", "InvalidEmoji", "TooManyEntries", "NotAssignable", "RoleTooHigh"}

\* this step is an admin set handler (every handler step records its own reply)
SetAnswers == reply'.op = "set"

\* C1: no two entries of a guild's autoroles refer to the same role (an add of a
\* role that already has an entry appends nothing).
C1_RoleUnique ==
    \A g \in DOMAIN configs : \A i, j \in DOMAIN Entries(g) :
        i # j => Entries(g)[i].role # Entries(g)[j].role

\* C2: under every interleaving of add, remove and set handlers each guild's
\* autoroles list holds at most 25 entries.
C2_AtMost25 ==
    \A g \in DOMAIN configs : Len(Entries(g)) <= MaxAutoroles

\* C2 witness: an add has just appended the 25th entry of a guild.
C2_Witness ==
    /\ reply.op = "add"
    /\ reply.out = "Added"
    /\ Len(Entries(reply.guild)) = MaxAutoroles

C4_RejectionChangesNothing ==
    [][( \/ (\E c \in AdminAdds : AddAnswers(c)) /\ reply'.out \in AddRejections
         \/ SetAnswers /\ (reply'.mr = "InvalidGate" \/ reply'.col = "InvalidFormat") )
       => configs' = configs]_vars

\* C4 amended: a rejected add changes no configuration; a rejected option of set
\* leaves that option's field, the guild's autoroles and every other guild
\* unchanged, while the other option of the same command is still applied.
C4_RejectionFrame ==
    [][/\ ((\E c \in AdminAdds : AddAnswers(c)) /\ reply'.out \in AddRejections)
          => configs' = configs
       /\ \A g \in Guilds :
            (SetAnswers /\ reply'.guild = g) =>
               /\ \A o \in DOMAIN configs \ {g} : configs'[o] = configs[o]
               /\ configs'[g].autoroles = configs[g].autoroles
               /\ reply'.mr \in {"-", "InvalidGate", "Unchanged"}
                     => configs'[g].member_role = configs[g].member_role
               /\ reply'.col \in {"-", "InvalidFormat", "Unchanged"}
                     => configs'[g].color = configs[g].color]_vars

\* C4 witness: an admin set whose member_role was rejected and whose color was
\* applied.
C4_Witness ==
    /\ reply.op = "set"
    /\ reply.mr = "InvalidGate"
    /\ reply.col = "Updated"
    /\ configs[reply.guild].color # None

-----------------------------------------------------------------------------
(* Properties of the selection menu *)

Submitted == menu # None /\ menu[1].stage # "open"

\* C5: for selected a subset of offered, the deltas of RoleSelect.callback are
\* toRemove = (current \cap offered) \ selected and toAdd = selected \ current.
C5_DeltasAsReference ==
    Submitted =>
        LET m == menu[1] IN
        m.selected_roles \subseteq m.available_roles =>
            /\ m.to_remove = (m.user_roles \cap m.available_roles) \ m.selected_roles
            /\ m.to_add = m.selected_roles \ m.user_roles

\* C5 witness: a submission that both removes and adds a role while the member
\* holds a role the menu did not offer and keeps a selected role already held.
C5_Witness ==
    /\ Submitted
    /\ menu[1].to_remove # {}
    /\ menu[1].to_add # {}
    /\ menu[1].user_roles \cap menu[1].selected_roles # {}
    /\ (menu[1].user_roles \ menu[1].available_roles) \ {DefaultRole} # {}

\* C6: toAdd and toRemove are disjoint, toAdd is within selected, toRemove is
\* within offered, and a held role that was not offered is in neither.
C6_DeltasWithinMenu ==
    Submitted =>
        LET m == menu[1] IN
        m.selected_roles \subseteq m.available_roles =>
            /\ m.to_add \cap m.to_remove = {}
            /\ m.to_add \subseteq m.selected_roles
            /\ m.to_remove \subseteq m.available_roles
            /\ \A r \in m.user_roles \ m.available_roles :
                  r \notin m.to_add \cup m.to_remove

\* C6 witness: both calls of a submission that removed a role have completed and
\* the member still holds a role that the menu did not offer.
C6_Witness ==
    /\ Submitted
    /\ menu[1].stage = "done"
    /\ menu[1].to_remove # {}
    /\ \E r \in menu[1].user_roles \ menu[1].available_roles :
          r # DefaultRole /\ r \in userRoles

\* the top roles a member may have: the default role, each role that is a
\* member_role in some state, and roles above them
TopRoles == CommandRoles \cup {102}

PublicOnly(autoroles) == SelectSeq(autoroles, LAMBDA x : ~x.private)

\* C7: available_autoroles returns every entry exactly when the member's top role
\* is at or above member_role and member_role is not the default role, and the
\* public entries otherwise; no private entry while member_role is the default
\* role; a menu that was just opened offers the roles of those entries.
C7_AvailableAutoroles ==
    /\ \A g \in DOMAIN configs : \A top \in TopRoles :
          LET cfg == configs[g]
              got == available_autoroles(cfg, top)
          IN  /\ (top >= cfg.member_role /\ cfg.member_role # DefaultRole)
                    => got = cfg.autoroles
              /\ ~(top >= cfg.member_role /\ cfg.member_role # DefaultRole)
                    => got = PublicOnly(cfg.autoroles)
              /\ cfg.member_role = DefaultRole
                    => \A i \in DOMAIN got : ~got[i].private
    /\ (reply.op \in {"roles", "button"} /\ reply.out = "menu") =>
          LET cfg == configs[reply.guild]
              top == TopRole(userRoles)
              all == (top >= cfg.member_role /\ cfg.member_role # DefaultRole)
          IN  Range(menu[1].options) =
                 {cfg.autoroles[i].role : i \in
                     {k \in DOMAIN cfg.autoroles : all \/ ~cfg.autoroles[k].private}}

\* C7 witness: member_role is the default role, the member holds a role above
\* it, and the menu opened for the member leaves the guild's private entry out.
C7_Witness ==
    /\ reply.op = "roles"
    /\ reply.out = "menu"
    /\ configs[reply.guild].member_role = DefaultRole
    /\ TopRole(userRoles) # DefaultRole
    /\ \E i \in DOMAIN Entries(reply.guild) :
          /\ Entries(reply.guild)[i].private
          /\ Entries(reply.guild)[i].role \notin Range(menu[1].options)

-----------------------------------------------------------------------------
(* Properties of the load and the save *)

\* on_ready has just run and found a db.json
JustLoaded == reply.op = "on_ready" /\ db # None

\* the guild and every role and emoji of its saved configuration still resolve
Resolves(g, cfg) ==
    /\ g \in botGuilds
    /\ cfg.member_role \in liveRoles[g]
    /\ \A i \in DOMAIN cfg.autoroles :
          /\ cfg.autoroles[i].role \in liveRoles[g]
          /\ cfg.autoroles[i].emoji.kind = "Emoji"
                => cfg.autoroles[i].emoji.id \in liveEmojis[g]

\* C8: the load never fails on stale role or emoji ids: with every guild of the
\* file still a guild of the bot, the load completes, every guild of the file is
\* loaded, and entries whose role or custom emoji no longer resolves are
\* dropped, so that no loaded entry has a null role or emoji.
C8_LoadDropsStale ==
    (JustLoaded /\ \A k \in DOMAIN db[1] : IntOf(k) \in botGuilds) =>
        /\ reply.out = "Loaded"
        /\ \A k \in DOMAIN db[1] : IntOf(k) \in DOMAIN configs
        /\ \A g \in DOMAIN configs : \A i \in DOMAIN Entries(g) :
              /\ Entries(g)[i].emoji.kind # "None"
              /\ Entries(g)[i].role \in liveRoles[g]

\* C9: after save() and the load of on_ready, every guild whose roles and emoji
\* still resolve has the member_role, color and autoroles it had when saved.
C9_RoundTrip ==
    (JustLoaded /\ saved # None) =>
        \A g \in DOMAIN saved[1] :
            Resolves(g, saved[1][g]) =>
                g \in DOMAIN configs /\ configs[g] = saved[1][g]

\* C10: once on_ready has completed, every guild the bot is in has a
\* configuration, and no handler fails the lookup configs[guild_id].
C10_EveryGuildConfigured ==
    phase = "ready" =>
        /\ botGuilds \subseteq DOMAIN configs
        /\ reply.out # "KeyError"

-----------------------------------------------------------------------------
(* Further properties of the admin commands *)

\* this step is an admin remove handler
RemoveAnswers == reply'.op = "remove"

\* the list without its i-th element
Without(autoroles, i) ==
    SubSeq(autoroles, 1, i - 1) \o SubSeq(autoroles, i + 1, Len(autoroles))

\* C11: admin remove of a role without an entry answers "not in autoroles",
\* raises nothing and leaves every configuration as it was; admin remove of a
\* role with an entry removes one entry of that role, leaves every other entry
\* and every other field as they were, and answers "removed".
C11_RemoveOutcome ==
    [][RemoveAnswers =>
         LET g == reply'.guild
             role == reply'.role
         IN  IF ~HasEntry(g, role)
             THEN /\ reply'.out = "NotInAutoroles"
                  /\ configs' = configs
             ELSE /\ reply'.out = "Removed"
                  /\ \E i \in DOMAIN Entries(g) :
                        /\ Entries(g)[i].role = role
                        /\ configs' = [configs EXCEPT
                               ![g].autoroles = Without(Entries(g), i)]]_vars

\* a remove answered "not in autoroles" in a guild that has entries for other
\* roles
C11_Witness ==
    /\ reply.op = "remove"
    /\ reply.out = "NotInAutoroles"
    /\ Len(Entries(reply.guild)) >= MaxAutoroles - 1
    /\ ~HasEntry(reply.guild, reply.role)

\* exactly six hexadecimal digits, the digits being those of the code's pattern
SixHex(color) ==
    /\ Len(color) = 6
    /\ \A i \in DOMAIN color : color[i] \in Range(UpperHex)

\* C12: admin set color accepts a string exactly when it is six hexadecimal
\* digits, storing its value; every other string gets the invalid-color answer,
\* raises nothing and leaves the stored color as it was.
C12_ColorExactlySixHex ==
    [][(SetAnswers /\ reply'.color # None /\ reply'.out # "KeyError") =>
         LET g == reply'.guild
             color == reply'.color[1]
         IN  IF SixHex(color)
             THEN /\ reply'.col \in {"Unchanged", "Updated"}
                  /\ configs'[g].color = Some(HexNumber(color))
             ELSE /\ reply'.col = "InvalidFormat"
                  /\ configs'[g].color = configs[g].color]_vars

\* add of command c applied to a configuration
AddOf(cfg, c) ==
    AddWhole(cfg, c.guild, c.emoji, c.role, c.description, c.private)

\* the entries left by add a followed by add b
AddTwo(cfg, a, b) == Range(AddOf(AddOf(cfg, a), b).autoroles)

\* nothing but the limit stands against the add of command c
Acceptable(c) == EmojiValid(c) /\ BelowBot(c.role) /\ is_assignable(c.role)

\* the commands for another role of the same guild
OtherAdds(a) == {b \in AdminAdds : b.guild = a.guild /\ b.role # a.role}

Appended == {"Added", "AddedPrivateNoMemberRole"}

\* C15: whatever add handlers ran while a handler was suspended, at the moment
\* the handler appends, the checks it made against the autoroles still hold: a
\* role that had no entry when the handler tested for it still has none, and
\* the list holds fewer than 25 entries.
C15_AddAtomic ==
    [][\A h \in pending :
          (AddResume(h) /\ reply'.out \in Appended) =>
              /\ Len(Entries(h.guild)) < MaxAutoroles
              /\ h.fresh => ~HasEntry(h.guild, h.role)]_vars

\* C19: after an admin remove of a role has answered "removed", the guild's
\* autoroles hold no entry of that role.
C19_RemovedIsGone ==
    (reply.op = "remove" /\ reply.out = "Removed") =>
        ~HasEntry(reply.guild, reply.role)

-----------------------------------------------------------------------------
(* Further properties of the selection menu *)

\* the entries the member sees now
Visible(g) == available_autoroles(configs[g], TopRole(userRoles))

\* C13: /roles and the "Select Role(s)" button end in one of three replies and
\* in no error: the menu when an entry is visible to the caller, "no public
\* autoroles available" when there are entries and none is visible, "no
\* autoroles configured" when there is no entry.
C13_RolesThreeReplies ==
    reply.op \in {"roles", "button"} =>
        LET g == reply.guild
        IN  /\ g \in DOMAIN configs
            /\ reply.out = (IF Entries(g) = <<>> THEN "NoneConfigured"
                            ELSE IF Visible(g) = <<>> THEN "NoPublic"
                            ELSE "menu")
            /\ reply.out = "menu" => menu # None /\ menu[1].stage = "open"

\* both calls of a submission have just completed, nothing else having changed
\* the member's roles since the submission
Completed ==
    /\ menu # None
    /\ reply.op = "select"
    /\ reply.out = "removed"
    /\ ~menu[1].disturbed

\* C17: when add_roles and remove_roles of a submission have both completed and
\* nothing else changed the member's roles meanwhile, the member holds, of the
\* roles the menu offered, exactly the selected ones, and outside the offered
\* roles what was held before.
C17_HeldIsSelected ==
    Completed =>
        LET m == menu[1] IN
        /\ userRoles \cap m.available_roles = m.selected_roles
        /\ userRoles \ m.available_roles = m.user_roles \ m.available_roles

\* C17 witness: a completed submission that granted a role and revoked another
\* while the member kept a role the menu did not offer.
C17_Witness ==
    /\ Completed
    /\ menu[1].selected_roles \ menu[1].user_roles # {}
    /\ (menu[1].user_roles \cap menu[1].available_roles)
          \ menu[1].selected_roles # {}
    /\ (userRoles \ menu[1].available_roles) \ {DefaultRole} # {}

\* C18: every role a submission grants or revokes is, when the menu is
\* submitted, the role of an entry that available_autoroles returns for the
\* member, whatever happened since the menu was opened.
C18_DeltasRegistered ==
    (menu # None /\ reply.op = "select" /\ reply.out = "submitted") =>
        menu[1].to_add \cup menu[1].to_remove \subseteq
            {Visible(menu[1].guild)[i].role : i \in DOMAIN Visible(menu[1].guild)}

-----------------------------------------------------------------------------
(* Further properties of the load and the save *)

\* C16: once on_ready has loaded the store, the configurations are changed by
\* the admin commands and by the bot joining a guild only: no later event, a
\* second on_ready included, replaces or resets them, so the changes of the
\* admin commands are in the store when save() runs.
C16_LoadedOnce ==
    [][(phase = "ready" /\ phase' = "ready" /\ configs' # configs) =>
          reply'.op \in {"add", "remove", "set", "guild_join"}]_vars

\* the process has not loaded db.json: on_ready has not run, or it gave up
\* part-way
NotLoaded ==
    \/ phase = "started"
    \/ reply.op = "on_ready" /\ reply.out = "AttributeError"

\* C20: when the process exits without having loaded db.json, every guild
\* configuration the file held is still in the file after save().
C20_FlushKeepsUnloaded ==
    [][(reply'.op = "exit" /\ db # None /\ NotLoaded) =>
          \A k \in DOMAIN db[1] :
             k \in DOMAIN db'[1] /\ db'[1][k] = db[1][k]]_vars

=============================================================================
